---- MODULE Spec2Model ----
(***************************************************************************)
(* A model of fzf's terminal presentation core (src/tui/tui.go): the       *)
(* colour model and its merge algebra, the cascading theme resolution      *)
(* (initTheme) with the palette derivation (initPalette), the Event value  *)
(* type, and the mouse double-click classifier.                            *)
(***************************************************************************)
EXTENDS Integers, Sequences, FiniteSets, TLC

VARIABLES theme, builtin, palette, nsets, lastCall, reloads,
          pa, pb, pres, pbg,
          e1, e2, eres,
          now, prevDownTime, clicks, downs,
          ke, kres,
          hex, hres, cres,
          shape, bres

themeVars == <<theme, builtin, palette, nsets, lastCall, reloads>>
pairVars  == <<pa, pb, pres, pbg>>
eventVars == <<e1, e2, eres>>
mouseVars == <<now, prevDownTime, clicks, downs>>
keyVars == <<ke, kres>>
hexVars == <<hex, hres, cres>>
borderVars == <<shape, bres>>
vars == <<theme, builtin, palette, nsets, lastCall, reloads, pa, pb, pres, pbg,
          e1, e2, eres, now, prevDownTime, clicks, downs, ke, kres,
          hex, hres, cres, shape, bres>>

(***************************************************************************)
(* Bounds of the model.                                                    *)
(***************************************************************************)
\* how many slots of the overlay the caller sets before initTheme
MaxSets == 1
\* how many times initTheme is called in a run with reloads
MaxReloads == 2
\* how many mouse-down events one run of the classifier sees
MaxDowns == 3
\* the clock (ms since the Unix epoch) when the renderer is constructed
StartTime == 1000

(***************************************************************************)
(* Color: the sentinels and the named palette indices.                     *)
(***************************************************************************)
colUndefined == -2
colDefault == -1
colBlack == 0
colRed == 1
colGreen == 2
colYellow == 3
colBlue == 4
colMagenta == 5
colCyan == 6
colWhite == 7

(***************************************************************************)
(* Attr: a bitmask of text attributes.  The type and its constants are     *)
(* declared per backend; here bit 8 is "regular" and 0 is "undefined".     *)
(***************************************************************************)
AttrUndefined == 0
AttrRegular == 256
Bold == 1
Underline == 8
Reverse == 64
AttrBits == 9

\* a & bit > 0, for a one-bit mask
HasBit(a, bit) == (a \div bit) % 2 = 1

RECURSIVE BitOr(_, _, _)
\* a | b over the low n bits
BitOr(a, b, n) ==
    IF n = 0 THEN 0
    ELSE (IF a % 2 = 1 \/ b % 2 = 1 THEN 1 ELSE 0)
         + 2 * BitOr(a \div 2, b \div 2, n - 1)

\* Attr.Merge: regular overwrites, any other mask is united, undefined is a no-op
AttrMerge(a, b) == IF HasBit(b, AttrRegular) THEN b ELSE BitOr(a, b, AttrBits)

(***************************************************************************)
(* ColorAttr and ColorTheme.                                               *)
(***************************************************************************)
ColorAttr(c, a, b) == [Color |-> c, Attr |-> a, BackgroundColor |-> b]

NewColorAttr == ColorAttr(colUndefined, AttrUndefined, colUndefined)

PrimitiveSlots == {"Input", "Fg", "Bg", "DarkBg", "Prompt", "Match", "Current",
                   "CurrentMatch", "Spinner", "Info", "Cursor", "Marker",
                   "Header", "Border", "BorderLabel"}

CompoundSlots == {"SelectedFg", "SelectedBg", "SelectedMatch", "Disabled",
                  "Gutter", "PreviewFg", "PreviewBg", "PreviewLabel",
                  "PreviewBorder", "Separator", "Scrollbar", "PreviewScrollbar"}

Slots == PrimitiveSlots \cup CompoundSlots

\* the slots of a theme whose primitive slots hold p[s] and compound slots c
ThemeOf(colored, p, c) ==
    [s \in Slots \cup {"Colored"} |->
        IF s = "Colored" THEN colored
        ELSE IF s \in PrimitiveSlots THEN p[s] ELSE c]

EmptyTheme == ThemeOf(TRUE, [s \in PrimitiveSlots |-> NewColorAttr], NewColorAttr)

\* a built-in theme: Input, Fg and Bg are default, the compound slots undefined
BuiltinTheme(c) ==
    ThemeOf(TRUE,
            [s \in PrimitiveSlots |->
                ColorAttr(IF s \in {"Input", "Fg", "Bg"} THEN colDefault ELSE c[s],
                          AttrUndefined, colUndefined)],
            NewColorAttr)

Default16 ==
    BuiltinTheme([DarkBg |-> colBlack, Prompt |-> colBlue, Match |-> colGreen,
                  Current |-> colYellow, CurrentMatch |-> colGreen,
                  Spinner |-> colGreen, Info |-> colWhite, Cursor |-> colRed,
                  Marker |-> colMagenta, Header |-> colCyan, Border |-> colBlack,
                  BorderLabel |-> colWhite])

Dark256 ==
    BuiltinTheme([DarkBg |-> 236, Prompt |-> 110, Match |-> 108,
                  Current |-> 254, CurrentMatch |-> 151,
                  Spinner |-> 148, Info |-> 144, Cursor |-> 161,
                  Marker |-> 168, Header |-> 109, Border |-> 59,
                  BorderLabel |-> 145])

Light256 ==
    BuiltinTheme([DarkBg |-> 251, Prompt |-> 25, Match |-> 66,
                  Current |-> 237, CurrentMatch |-> 23,
                  Spinner |-> 65, Info |-> 101, Cursor |-> 161,
                  Marker |-> 168, Header |-> 31, Border |-> 145,
                  BorderLabel |-> 59])

BaseNames == {"Default16", "Dark256", "Light256"}

\* the package's init(): the three built-in themes
init == [Default16 |-> Default16, Dark256 |-> Dark256, Light256 |-> Light256]

(***************************************************************************)
(* initTheme: the overlay is resolved in place against the base theme.     *)
(***************************************************************************)
\* o with a default colour treated like an undefined one
oDefaultInherits(a, b) ==
    [Color |-> IF b.Color # colUndefined /\ b.Color # colDefault
               THEN b.Color ELSE a.Color,
     Attr |-> IF b.Attr # AttrUndefined THEN b.Attr ELSE a.Attr,
     BackgroundColor |-> IF b.BackgroundColor # colUndefined
                         THEN b.BackgroundColor ELSE a.BackgroundColor]

\* the closure o of initTheme: b's defined fields laid over a
o(a, b) ==
    [Color |-> IF b.Color # colUndefined THEN b.Color ELSE a.Color,
     Attr |-> IF b.Attr # AttrUndefined THEN b.Attr ELSE a.Attr,
     BackgroundColor |-> IF b.BackgroundColor # colUndefined
                         THEN b.BackgroundColor ELSE a.BackgroundColor]

Step(slot, from, src) == [slot |-> slot, from |-> from, src |-> src]

\* the assignments of initTheme, in the order of the source:
\* theme.slot = o(<from>.src, theme.slot)
Steps ==
    << Step("Input", "base", "Input"),
       Step("Fg", "base", "Fg"),
       Step("Bg", "base", "Bg"),
       Step("DarkBg", "base", "DarkBg"),
       Step("Prompt", "base", "Prompt"),
       Step("Match", "base", "Match"),
       Step("Current", "base", "Current"),
       Step("CurrentMatch", "base", "CurrentMatch"),
       Step("Spinner", "base", "Spinner"),
       Step("Info", "base", "Info"),
       Step("Cursor", "base", "Cursor"),
       Step("Marker", "base", "Marker"),
       Step("Header", "base", "Header"),
       Step("Border", "base", "Border"),
       Step("BorderLabel", "base", "BorderLabel"),
       Step("SelectedFg", "theme", "Fg"),
       Step("SelectedBg", "theme", "Bg"),
       Step("SelectedMatch", "theme", "Match"),
       Step("Disabled", "theme", "Input"),
       Step("Gutter", "theme", "DarkBg"),
       Step("PreviewFg", "theme", "Fg"),
       Step("PreviewBg", "theme", "Bg"),
       Step("PreviewLabel", "theme", "BorderLabel"),
       Step("PreviewBorder", "theme", "Border"),
       Step("Separator", "theme", "Border"),
       Step("Scrollbar", "theme", "Border"),
       Step("PreviewScrollbar", "theme", "PreviewBorder") >>

\* the slot a compound slot falls back on; a primitive slot, on itself
FallbackOf(s) ==
    LET st == Steps[CHOOSE i \in 1..Len(Steps) : Steps[i].slot = s]
    IN  IF st.from = "theme" THEN st.src ELSE s

\* a slot and the slots it falls back on, in turn
FallbackChain(s) == {s, FallbackOf(s), FallbackOf(FallbackOf(s))}

\* assign with every fallback read from the base theme
assignFromBase(t, baseTheme, st) ==
    [t EXCEPT ![st.slot] = o(baseTheme[st.src], t[st.slot])]

\* one assignment of initTheme, on the theme as the earlier ones left it
assign(t, baseTheme, st) ==
    [t EXCEPT ![st.slot] =
        o(IF st.from = "base" THEN baseTheme[st.src] ELSE t[st.src], t[st.slot])]

RECURSIVE resolve(_, _, _)
\* the assignments from the i-th on, one after the other
resolve(t, baseTheme, i) ==
    IF i > Len(Steps) THEN t
    ELSE resolve(assign(t, baseTheme, Steps[i]), baseTheme, i + 1)

\* blacken that leaves a background the overlay has set
blackenIfUnset(t, forceBlack) ==
    IF forceBlack /\ t.Bg.Color = colUndefined
    THEN [t EXCEPT !.Bg = ColorAttr(colBlack, AttrUndefined, colUndefined)]
    ELSE t

\* blacken that blackens DarkBg as well
blackenDarkBgToo(t, forceBlack) ==
    IF forceBlack
    THEN [t EXCEPT !.Bg = ColorAttr(colBlack, AttrUndefined, colUndefined),
                   !.DarkBg = ColorAttr(colBlack, AttrUndefined, colUndefined)]
    ELSE t

\* if forceBlack { theme.Bg = ColorAttr{colBlack, AttrUndefined, colUndefined} }
blacken(t, forceBlack) ==
    IF forceBlack
    THEN [t EXCEPT !.Bg = ColorAttr(colBlack, AttrUndefined, colUndefined)]
    ELSE t

\* the theme initTheme leaves behind (the palette is derived from it)
initTheme(t, baseTheme, forceBlack) ==
    resolve(blacken(t, forceBlack), baseTheme, 1)

(***************************************************************************)
(* initPalette: the exported ColorPairs.                                   *)
(***************************************************************************)
ColorPair(fg, bg, attr) == [fg |-> fg, bg |-> bg, attr |-> attr]

\* pair with the background override tested against default only
pairUndefinedOverrides(fg, bg) ==
    LET bg1 == IF fg.Color = colDefault /\ HasBit(fg.Attr, Reverse)
               THEN colDefault ELSE bg.Color
        bg2 == IF fg.BackgroundColor # colDefault
               THEN fg.BackgroundColor ELSE bg1
    IN  ColorPair(fg.Color, bg2, fg.Attr)

\* pair with the background override tested against undefined only
pairDefaultOverrides(fg, bg) ==
    LET bg1 == IF fg.Color = colDefault /\ HasBit(fg.Attr, Reverse)
               THEN colDefault ELSE bg.Color
        bg2 == IF fg.BackgroundColor # colUndefined
               THEN fg.BackgroundColor ELSE bg1
    IN  ColorPair(fg.Color, bg2, fg.Attr)

\* pair without the reverse-video rule
pairNoReverse(fg, bg) ==
    LET bg2 == IF fg.BackgroundColor # colDefault /\ fg.BackgroundColor # colUndefined
               THEN fg.BackgroundColor ELSE bg.Color
    IN  ColorPair(fg.Color, bg2, fg.Attr)

\* pair with the attribute of the background slot
pairAttrOfBg(fg, bg) ==
    LET bg1 == IF fg.Color = colDefault /\ HasBit(fg.Attr, Reverse)
               THEN colDefault ELSE bg.Color
        bg2 == IF fg.BackgroundColor # colDefault /\ fg.BackgroundColor # colUndefined
               THEN fg.BackgroundColor ELSE bg1
    IN  ColorPair(fg.Color, bg2, bg.Attr)

\* the closure pair of initPalette
pair(fg, bg) ==
    LET bg1 == IF fg.Color = colDefault /\ HasBit(fg.Attr, Reverse)
               THEN colDefault ELSE bg.Color
        bg2 == IF fg.BackgroundColor # colDefault /\ fg.BackgroundColor # colUndefined
               THEN fg.BackgroundColor ELSE bg1
    IN  ColorPair(fg.Color, bg2, fg.Attr)

\* blank that keeps the attribute of Fg
blankKeepsAttr(t) == t.Fg

\* blank := theme.Fg; blank.Attr = AttrRegular
blank(t) == [t.Fg EXCEPT !.Attr = AttrRegular]

\* the slots <<fg, bg>> each pair(...) call of initPalette is given;
\* "blank" stands for the local variable blank
PairingSlots(t) ==
    [ColPrompt |-> <<"Prompt", "Bg">>,
     ColNormal |-> <<"Fg", "Bg">>,
     ColSelected |-> <<"SelectedFg", "SelectedBg">>,
     ColInput |-> <<"Input", "Bg">>,
     ColDisabled |-> <<"Disabled", "Bg">>,
     ColMatch |-> <<"Match", "Bg">>,
     ColSelectedMatch |-> <<"SelectedMatch", "SelectedBg">>,
     ColCursor |-> <<"Cursor", "Gutter">>,
     ColCursorEmpty |-> <<"blank", "Gutter">>,
     ColMarker |-> IF t.SelectedBg.Color # t.Bg.Color
                   THEN <<"Marker", "SelectedBg">>
                   ELSE <<"Marker", "Gutter">>,
     ColCurrent |-> <<"Current", "DarkBg">>,
     ColCurrentMatch |-> <<"CurrentMatch", "DarkBg">>,
     ColCurrentCursor |-> <<"Cursor", "DarkBg">>,
     ColCurrentCursorEmpty |-> <<"blank", "DarkBg">>,
     ColCurrentMarker |-> <<"Marker", "DarkBg">>,
     ColCurrentSelectedEmpty |-> <<"blank", "DarkBg">>,
     ColSpinner |-> <<"Spinner", "Bg">>,
     ColInfo |-> <<"Info", "Bg">>,
     ColHeader |-> <<"Header", "Bg">>,
     ColSeparator |-> <<"Separator", "Bg">>,
     ColScrollbar |-> <<"Scrollbar", "Bg">>,
     ColBorder |-> <<"Border", "Bg">>,
     ColBorderLabel |-> <<"BorderLabel", "Bg">>,
     ColPreviewLabel |-> <<"PreviewLabel", "PreviewBg">>,
     ColPreview |-> <<"PreviewFg", "PreviewBg">>,
     ColPreviewBorder |-> <<"PreviewBorder", "PreviewBg">>,
     ColPreviewScrollbar |-> <<"PreviewScrollbar", "PreviewBg">>,
     ColPreviewSpinner |-> <<"Spinner", "PreviewBg">>]

\* the ColorAttr values <<fg, bg>> of each pair(...) call of initPalette
Pairings(t) ==
    LET ps == PairingSlots(t)
        b == blank(t)
    IN  [n \in DOMAIN ps |->
            <<IF ps[n][1] = "blank" THEN b ELSE t[ps[n][1]], t[ps[n][2]]>>]

PaletteNames == DOMAIN PairingSlots(EmptyTheme)

initPalette(t) ==
    LET p == Pairings(t)
    IN  [n \in PaletteNames |-> pair(p[n][1], p[n][2])]

\* the Col* globals before the first initTheme: Go's zero ColorPair
ZeroPalette == [n \in PaletteNames |-> ColorPair(0, 0, 0)]

(***************************************************************************)
(* The theme engine as a state machine: the caller builds a sparse         *)
(* overlay on EmptyTheme(), then calls initTheme against a built-in theme. *)
(***************************************************************************)
\* the values a caller gives a slot of the overlay: any colour, attribute and
\* background colour among these, at least one of them defined
OverlayColors == {colUndefined, colDefault, colMagenta}
OverlayAttrs == {AttrUndefined, AttrRegular, Reverse}
OverlayBackgrounds == {colUndefined, colDefault, 9}

OverlayValues ==
    {ColorAttr(c, a, b) : c \in OverlayColors, a \in OverlayAttrs,
                          b \in OverlayBackgrounds} \ {NewColorAttr}

NoCall == [done |-> FALSE, theme |-> EmptyTheme, base |-> "Default16",
           forceBlack |-> FALSE]

ThemeInit ==
    /\ theme = EmptyTheme
    /\ builtin = init
    /\ palette = ZeroPalette
    /\ nsets = 0
    /\ lastCall = NoCall
    /\ reloads = << >>

\* the caller sets one slot of the overlay, still unset: theme.slot = v
SetSlot ==
    /\ ~lastCall.done
    /\ nsets < MaxSets
    /\ \E s \in Slots, v \in OverlayValues :
          /\ theme[s] = NewColorAttr
          /\ theme' = [theme EXCEPT ![s] = v]
    /\ nsets' = nsets + 1
    /\ UNCHANGED <<builtin, palette, lastCall, reloads>>
    /\ UNCHANGED <<pairVars, eventVars, mouseVars, keyVars, hexVars, borderVars>>

\* initTheme(theme, baseTheme, forceBlack), with initPalette(theme) at its end
InitTheme ==
    /\ ~lastCall.done
    /\ \E b \in BaseNames, forceBlack \in BOOLEAN :
          /\ theme' = initTheme(theme, builtin[b], forceBlack)
          /\ lastCall' = [done |-> TRUE, theme |-> theme, base |-> b,
                          forceBlack |-> forceBlack]
    /\ palette' = initPalette(theme')
    /\ UNCHANGED <<builtin, nsets, reloads>>
    /\ UNCHANGED <<pairVars, eventVars, mouseVars, keyVars, hexVars, borderVars>>

\* initPalette with ColMarker assigned only where SelectedBg and Bg differ
initPaletteOntoMarkerIfDiffers(old, t) ==
    LET p == Pairings(t)
    IN  [n \in PaletteNames |->
            IF n = "ColMarker" /\ t.SelectedBg.Color = t.Bg.Color
            THEN old[n] ELSE pair(p[n][1], p[n][2])]

\* initPalette as it acts on the Col* globals holding old: a global the
\* code assigns takes its new pair, any other would keep its value
initPaletteOnto(old, t) ==
    LET p == Pairings(t)
    IN  [n \in PaletteNames |->
            IF n \in DOMAIN p THEN pair(p[n][1], p[n][2]) ELSE old[n]]

\* the overlays of a run with reloads: EmptyTheme() with at most one of
\* these slots set to one of these values
ReloadSlots == {"Bg", "SelectedBg", "Marker"}
ReloadValues == {ColorAttr(colMagenta, AttrUndefined, colUndefined),
                 ColorAttr(colDefault, Reverse, 9)}
ReloadOverlays ==
    {EmptyTheme} \cup {[EmptyTheme EXCEPT ![s] = v] : s \in ReloadSlots,
                                                     v \in ReloadValues}

\* startup or a reload: initTheme on a fresh overlay
Reload ==
    /\ Len(reloads) < MaxReloads
    /\ \E ov \in ReloadOverlays, b \in BaseNames, forceBlack \in BOOLEAN :
          /\ theme' = initTheme(ov, builtin[b], forceBlack)
          /\ lastCall' = [done |-> TRUE, theme |-> ov, base |-> b,
                          forceBlack |-> forceBlack]
          /\ reloads' = Append(reloads, [theme |-> ov, base |-> b,
                                         forceBlack |-> forceBlack])
    /\ palette' = initPaletteOnto(palette, theme')
    /\ UNCHANGED <<builtin, nsets>>
    /\ UNCHANGED <<pairVars, eventVars, mouseVars, keyVars, hexVars, borderVars>>

\* a reload that calls initTheme on the theme an earlier call resolved
ReloadSame ==
    /\ reloads # << >>
    /\ Len(reloads) < MaxReloads
    /\ \E b \in BaseNames, forceBlack \in BOOLEAN :
          /\ theme' = initTheme(theme, builtin[b], forceBlack)
          /\ lastCall' = [done |-> TRUE, theme |-> theme, base |-> b,
                          forceBlack |-> forceBlack]
          /\ reloads' = Append(reloads, [theme |-> theme, base |-> b,
                                         forceBlack |-> forceBlack])
    /\ palette' = initPaletteOnto(palette, theme')
    /\ UNCHANGED <<builtin, nsets>>
    /\ UNCHANGED <<pairVars, eventVars, mouseVars, keyVars, hexVars, borderVars>>

RECURSIVE resolveAliased(_, _)
\* the assignments from the i-th on when theme and baseTheme point to one
\* ColorTheme: each read of baseTheme sees what the assignments before wrote
resolveAliased(t, i) ==
    IF i > Len(Steps) THEN t
    ELSE resolveAliased(assign(t, t, Steps[i]), i + 1)

\* what initTheme(p, p, forceBlack) leaves in the ColorTheme p points to
initThemeAliased(t, forceBlack) == resolveAliased(blacken(t, forceBlack), 1)

\* initTheme(b, b, forceBlack) for a built-in theme b: the theme written to
\* is the global instance itself
InitThemeAliased ==
    /\ Len(reloads) < MaxReloads
    /\ \E b \in BaseNames, forceBlack \in BOOLEAN :
          /\ builtin' = [builtin EXCEPT ![b] = initThemeAliased(builtin[b], forceBlack)]
          /\ lastCall' = [done |-> TRUE, theme |-> builtin[b], base |-> b,
                          forceBlack |-> forceBlack]
          /\ reloads' = Append(reloads, [theme |-> builtin[b], base |-> b,
                                         forceBlack |-> forceBlack])
          /\ palette' = initPaletteOnto(palette, builtin'[b])
    /\ UNCHANGED <<theme, nsets>>
    /\ UNCHANGED <<pairVars, eventVars, mouseVars, keyVars, hexVars, borderVars>>

\* NoColorTheme(): every slot default, the compound slots included, with
\* attributes on Match, Current and CurrentMatch
NoColorTheme ==
    ThemeOf(FALSE,
            [s \in PrimitiveSlots |->
                ColorAttr(colDefault,
                          CASE s = "Match" -> Underline
                            [] s = "Current" -> Reverse
                            [] s = "CurrentMatch" -> BitOr(Reverse, Underline, AttrBits)
                            [] OTHER -> AttrUndefined,
                          colUndefined)],
            ColorAttr(colDefault, AttrUndefined, colUndefined))

\* the themes a caller may resolve against: a built-in one or NoColorTheme()
AnyBaseNames == BaseNames \cup {"NoColorTheme"}

BaseTheme(b) == IF b = "NoColorTheme" THEN NoColorTheme ELSE builtin[b]

\* initTheme(theme, baseTheme, forceBlack) with any of these as baseTheme
InitThemeAnyBase ==
    /\ ~lastCall.done
    /\ \E b \in AnyBaseNames, forceBlack \in BOOLEAN :
          /\ theme' = initTheme(theme, BaseTheme(b), forceBlack)
          /\ lastCall' = [done |-> TRUE, theme |-> theme, base |-> b,
                          forceBlack |-> forceBlack]
    /\ palette' = initPalette(theme')
    /\ UNCHANGED <<builtin, nsets, reloads>>
    /\ UNCHANGED <<pairVars, eventVars, mouseVars, keyVars, hexVars, borderVars>>

(***************************************************************************)
(* ColorPair merges.                                                       *)
(***************************************************************************)
\* p.merge(other, except): a copy of p with other's fields laid over it
merge(p, other, except) ==
    [fg |-> IF other.fg # except THEN other.fg ELSE p.fg,
     bg |-> IF other.bg # except THEN other.bg ELSE p.bg,
     attr |-> AttrMerge(p.attr, other.attr)]

Merge(p, other) == merge(p, other, colUndefined)

\* MergeNonDefault with the sentinel of Merge
MergeNonDefaultUndefined(p, other) == merge(p, other, colUndefined)

MergeNonDefault(p, other) == merge(p, other, colDefault)

PairColors == {colUndefined, colDefault, colBlack, colMagenta}
PairAttrs == {AttrUndefined, AttrRegular, Bold, Reverse}
PairValues == {ColorPair(f, b, a) : f \in PairColors, b \in PairColors, a \in PairAttrs}

NoResult == [op |-> "none", a |-> ColorPair(0, 0, 0), b |-> ColorPair(0, 0, 0),
             r |-> ColorPair(0, 0, 0)]

PairInit ==
    /\ pa = ColorPair(0, 0, 0)
    /\ pb = ColorPair(0, 0, 0)
    /\ pres = NoResult

\* the caller holds two pairs
NewPairs ==
    /\ pres.op = "none"
    /\ pa = ColorPair(0, 0, 0) /\ pb = ColorPair(0, 0, 0)
    /\ \E a \in PairValues, b \in PairValues : pa' = a /\ pb' = b
    /\ UNCHANGED <<pres, pbg>>
    /\ UNCHANGED <<themeVars, eventVars, mouseVars, keyVars, hexVars, borderVars>>

\* r := pa.Merge(pb): the receiver and the argument are passed by value
CallMerge ==
    /\ pres.op = "none"
    /\ pres' = [op |-> "Merge", a |-> pa, b |-> pb, r |-> Merge(pa, pb)]
    /\ UNCHANGED <<pa, pb, pbg>>
    /\ UNCHANGED <<themeVars, eventVars, mouseVars, keyVars, hexVars, borderVars>>

\* r := pa.MergeNonDefault(pb)
CallMergeNonDefault ==
    /\ pres.op = "none"
    /\ pres' = [op |-> "MergeNonDefault", a |-> pa, b |-> pb,
                r |-> MergeNonDefault(pa, pb)]
    /\ UNCHANGED <<pa, pb, pbg>>
    /\ UNCHANGED <<themeVars, eventVars, mouseVars, keyVars, hexVars, borderVars>>

(***************************************************************************)
(* Event.Comparable.                                                       *)
(***************************************************************************)
\* the EventType values the model draws from: Rune, CtrlA, Alt, Mouse
Rune == 0
CtrlA == 1
Alt == 72
Mouse == 76
EventTypes == {Rune, CtrlA, Alt, Mouse}
Chars == {0, 97, 98}
\* a *MouseEvent: nil, or the address of one of two MouseEvent objects
Nil == "nil"
MousePointers == {Nil, "mouseA", "mouseB"}

Event(t, c, m) == [Type |-> t, Char |-> c, MouseEvent |-> m]

Events == {Event(t, c, m) : t \in EventTypes, c \in Chars, m \in MousePointers}

\* Comparable that keeps the mouse payload
ComparableKeepsMouse(e) == Event(e.Type, e.Char, e.MouseEvent)

\* e.Comparable()
Comparable(e) == Event(e.Type, e.Char, Nil)

NoCompare == [done |-> FALSE, a |-> Event(Rune, 0, Nil), b |-> Event(Rune, 0, Nil),
              ra |-> Event(Rune, 0, Nil), rb |-> Event(Rune, 0, Nil),
              rra |-> Event(Rune, 0, Nil)]

EventInit ==
    /\ e1 = Event(Rune, 0, Nil)
    /\ e2 = Event(Rune, 0, Nil)
    /\ eres = NoCompare

\* the caller holds two events
NewEvents ==
    /\ ~eres.done
    /\ e1 = Event(Rune, 0, Nil) /\ e2 = Event(Rune, 0, Nil)
    /\ \E a \in Events, b \in Events : e1' = a /\ e2' = b
    /\ UNCHANGED eres
    /\ UNCHANGED <<themeVars, pairVars, mouseVars, keyVars, hexVars, borderVars>>

\* ra := e1.Comparable(); rb := e2.Comparable(); rra := ra.Comparable()
CallComparable ==
    /\ ~eres.done
    /\ eres' = [done |-> TRUE, a |-> e1, b |-> e2,
                ra |-> Comparable(e1), rb |-> Comparable(e2),
                rra |-> Comparable(Comparable(e1))]
    /\ UNCHANGED <<e1, e2>>
    /\ UNCHANGED <<themeVars, pairVars, mouseVars, keyVars, hexVars, borderVars>>

(***************************************************************************)
(* The mouse classifier of a FullscreenRenderer.  Times are milliseconds   *)
(* since the Unix epoch.                                                   *)
(***************************************************************************)
\* a shorter double-click window
doubleClickDurationShort == 500 - 100

doubleClickDuration == 500

\* time.Unix(0, 0)
Epoch == 0

\* the gaps (ms) between two mouse-down events, and the cells clicked
Gaps == {1, 499, 500, 501}
Positions == {<<0, 0>>, <<1, 0>>}

\* NewFullscreenRenderer: prevDownTime is the epoch and no click is recorded
MouseInit ==
    /\ now = StartTime
    /\ prevDownTime = Epoch
    /\ clicks = << >>
    /\ downs = << >>

\* whether a left mouse-down at time t on cell pos is a double click
IsDouble(t, pos) ==
    /\ t - prevDownTime <= doubleClickDuration
    /\ clicks # << >>
    /\ clicks[Len(clicks)] = pos

\* d ms after the last event, a left mouse-down on cell pos is classified
MouseDown ==
    /\ Len(downs) < MaxDowns
    /\ \E d \in Gaps, pos \in Positions :
          /\ now' = now + d
          /\ IF IsDouble(now + d, pos)
             THEN /\ prevDownTime' = Epoch
                  /\ UNCHANGED clicks
             ELSE /\ prevDownTime' = now + d
                  /\ clicks' = <<pos>>
          /\ downs' = Append(downs, [t |-> now + d, pos |-> pos,
                                     Double |-> IsDouble(now + d, pos)])
    /\ UNCHANGED <<themeVars, pairVars, eventVars, keyVars, hexVars, borderVars>>

(***************************************************************************)
(* Event.KeyName.  A string is the sequence of its characters' code        *)
(* points.                                                                 *)
(***************************************************************************)
CtrlBackSlash == 30
CtrlRightBracket == 31
CtrlCaret == 32
CtrlSlash == 33
PageUp == 37
F10 == 60
CtrlAlt == 73
Invalid == 74

\* EventType.String(): the identifier of each constant, by its value
EventTypeNames ==
    <<
       <<82, 117, 110, 101>>, \* 0 Rune
       <<67, 116, 114, 108, 65>>, \* 1 CtrlA
       <<67, 116, 114, 108, 66>>, \* 2 CtrlB
       <<67, 116, 114, 108, 67>>, \* 3 CtrlC
       <<67, 116, 114, 108, 68>>, \* 4 CtrlD
       <<67, 116, 114, 108, 69>>, \* 5 CtrlE
       <<67, 116, 114, 108, 70>>, \* 6 CtrlF
       <<67, 116, 114, 108, 71>>, \* 7 CtrlG
       <<67, 116, 114, 108, 72>>, \* 8 CtrlH
       <<84, 97, 98>>, \* 9 Tab
       <<67, 116, 114, 108, 74>>, \* 10 CtrlJ
       <<67, 116, 114, 108, 75>>, \* 11 CtrlK
       <<67, 116, 114, 108, 76>>, \* 12 CtrlL
       <<67, 116, 114, 108, 77>>, \* 13 CtrlM
       <<67, 116, 114, 108, 78>>, \* 14 CtrlN
       <<67, 116, 114, 108, 79>>, \* 15 CtrlO
       <<67, 116, 114, 108, 80>>, \* 16 CtrlP
       <<67, 116, 114, 108, 81>>, \* 17 CtrlQ
       <<67, 116, 114, 108, 82>>, \* 18 CtrlR
       <<67, 116, 114, 108, 83>>, \* 19 CtrlS
       <<67, 116, 114, 108, 84>>, \* 20 CtrlT
       <<67, 116, 114, 108, 85>>, \* 21 CtrlU
       <<67, 116, 114, 108, 86>>, \* 22 CtrlV
       <<67, 116, 114, 108, 87>>, \* 23 CtrlW
       <<67, 116, 114, 108, 88>>, \* 24 CtrlX
       <<67, 116, 114, 108, 89>>, \* 25 CtrlY
       <<67, 116, 114, 108, 90>>, \* 26 CtrlZ
       <<69, 115, 99>>, \* 27 Esc
       <<67, 116, 114, 108, 83, 112, 97, 99, 101>>, \* 28 CtrlSpace
       <<67, 116, 114, 108, 68, 101, 108, 101, 116, 101>>, \* 29 CtrlDelete
       <<67, 116, 114, 108, 66, 97, 99, 107, 83, 108, 97, 115, 104>>, \* 30 CtrlBackSlash
       <<67, 116, 114, 108, 82, 105, 103, 104, 116, 66, 114, 97, 99, 107, 101, 116>>, \* 31 CtrlRightBracket
       <<67, 116, 114, 108, 67, 97, 114, 101, 116>>, \* 32 CtrlCaret
       <<67, 116, 114, 108, 83, 108, 97, 115, 104>>, \* 33 CtrlSlash
       <<83, 104, 105, 102, 116, 84, 97, 98>>, \* 34 ShiftTab
       <<66, 97, 99, 107, 115, 112, 97, 99, 101>>, \* 35 Backspace
       <<68, 101, 108, 101, 116, 101>>, \* 36 Delete
       <<80, 97, 103, 101, 85, 112>>, \* 37 PageUp
       <<80, 97, 103, 101, 68, 111, 119, 110>>, \* 38 PageDown
       <<85, 112>>, \* 39 Up
       <<68, 111, 119, 110>>, \* 40 Down
       <<76, 101, 102, 116>>, \* 41 Left
       <<82, 105, 103, 104, 116>>, \* 42 Right
       <<72, 111, 109, 101>>, \* 43 Home
       <<69, 110, 100>>, \* 44 End
       <<73, 110, 115, 101, 114, 116>>, \* 45 Insert
       <<83, 104, 105, 102, 116, 85, 112>>, \* 46 ShiftUp
       <<83, 104, 105, 102, 116, 68, 111, 119, 110>>, \* 47 ShiftDown
       <<83, 104, 105, 102, 116, 76, 101, 102, 116>>, \* 48 ShiftLeft
       <<83, 104, 105, 102, 116, 82, 105, 103, 104, 116>>, \* 49 ShiftRight
       <<83, 104, 105, 102, 116, 68, 101, 108, 101, 116, 101>>, \* 50 ShiftDelete
       <<70, 49>>, \* 51 F1
       <<70, 50>>, \* 52 F2
       <<70, 51>>, \* 53 F3
       <<70, 52>>, \* 54 F4
       <<70, 53>>, \* 55 F5
       <<70, 54>>, \* 56 F6
       <<70, 55>>, \* 57 F7
       <<70, 56>>, \* 58 F8
       <<70, 57>>, \* 59 F9
       <<70, 49, 48>>, \* 60 F10
       <<70, 49, 49>>, \* 61 F11
       <<70, 49, 50>>, \* 62 F12
       <<65, 108, 116, 66, 97, 99, 107, 115, 112, 97, 99, 101>>, \* 63 AltBackspace
       <<65, 108, 116, 85, 112>>, \* 64 AltUp
       <<65, 108, 116, 68, 111, 119, 110>>, \* 65 AltDown
       <<65, 108, 116, 76, 101, 102, 116>>, \* 66 AltLeft
       <<65, 108, 116, 82, 105, 103, 104, 116>>, \* 67 AltRight
       <<65, 108, 116, 83, 104, 105, 102, 116, 85, 112>>, \* 68 AltShiftUp
       <<65, 108, 116, 83, 104, 105, 102, 116, 68, 111, 119, 110>>, \* 69 AltShiftDown
       <<65, 108, 116, 83, 104, 105, 102, 116, 76, 101, 102, 116>>, \* 70 AltShiftLeft
       <<65, 108, 116, 83, 104, 105, 102, 116, 82, 105, 103, 104, 116>>, \* 71 AltShiftRight
       <<65, 108, 116>>, \* 72 Alt
       <<67, 116, 114, 108, 65, 108, 116>>, \* 73 CtrlAlt
       <<73, 110, 118, 97, 108, 105, 100>>, \* 74 Invalid
       <<70, 97, 116, 97, 108>>, \* 75 Fatal
       <<77, 111, 117, 115, 101>>, \* 76 Mouse
       <<68, 111, 117, 98, 108, 101, 67, 108, 105, 99, 107>>, \* 77 DoubleClick
       <<76, 101, 102, 116, 67, 108, 105, 99, 107>>, \* 78 LeftClick
       <<82, 105, 103, 104, 116, 67, 108, 105, 99, 107>>, \* 79 RightClick
       <<83, 76, 101, 102, 116, 67, 108, 105, 99, 107>>, \* 80 SLeftClick
       <<83, 82, 105, 103, 104, 116, 67, 108, 105, 99, 107>>, \* 81 SRightClick
       <<83, 99, 114, 111, 108, 108, 85, 112>>, \* 82 ScrollUp
       <<83, 99, 114, 111, 108, 108, 68, 111, 119, 110>>, \* 83 ScrollDown
       <<83, 83, 99, 114, 111, 108, 108, 85, 112>>, \* 84 SScrollUp
       <<83, 83, 99, 114, 111, 108, 108, 68, 111, 119, 110>>, \* 85 SScrollDown
       <<80, 114, 101, 118, 105, 101, 119, 83, 99, 114, 111, 108, 108, 85, 112>>, \* 86 PreviewScrollUp
       <<80, 114, 101, 118, 105, 101, 119, 83, 99, 114, 111, 108, 108, 68, 111, 119, 110>>, \* 87 PreviewScrollDown
       <<82, 101, 115, 105, 122, 101>>, \* 88 Resize
       <<67, 104, 97, 110, 103, 101>>, \* 89 Change
       <<66, 97, 99, 107, 119, 97, 114, 100, 69, 79, 70>>, \* 90 BackwardEOF
       <<83, 116, 97, 114, 116>>, \* 91 Start
       <<76, 111, 97, 100>>, \* 92 Load
       <<70, 111, 99, 117, 115>>, \* 93 Focus
       <<79, 110, 101>>, \* 94 One
       <<90, 101, 114, 111>>, \* 95 Zero
       <<82, 101, 115, 117, 108, 116>>, \* 96 Result
       <<74, 117, 109, 112>>, \* 97 Jump
       <<74, 117, 109, 112, 67, 97, 110, 99, 101, 108>>, \* 98 JumpCancel
       <<67, 108, 105, 99, 107, 72, 101, 97, 100, 101, 114>>  \* 99 ClickHeader
    >>

String(t) == EventTypeNames[t + 1]

AllEventTypes == 0..(Len(EventTypeNames) - 1)

IsUpper(r) == r >= 65 /\ r <= 90
IsLower(r) == r >= 97 /\ r <= 122
ToLower(r) == IF IsUpper(r) THEN r + 32 ELSE r

RECURSIVE Kebab(_, _)
\* the characters of s from the i-th on, lower-cased, with a hyphen before
\* each upper-case letter that follows a lower-case one
Kebab(s, i) ==
    IF i > Len(s) THEN << >>
    ELSE (IF i > 1 /\ IsUpper(s[i]) /\ IsLower(s[i - 1]) THEN <<45>> ELSE << >>)
         \o <<ToLower(s[i])>> \o Kebab(s, i + 1)

\* util.ToKebabCase
ToKebabCase(s) == Kebab(s, 1)

\* KeyName without the early return for the kinds that are no keys
KeyNameOfAnyKind(e) ==
    CASE e.Type = Rune -> <<e.Char>>
      [] e.Type = Alt -> <<97, 108, 116, 45>> \o <<e.Char>>
      [] e.Type = CtrlAlt -> <<99, 116, 114, 108, 45, 97, 108, 116, 45>> \o <<e.Char>>
      [] e.Type = CtrlBackSlash -> <<99, 116, 114, 108, 45, 92>>
      [] e.Type = CtrlRightBracket -> <<99, 116, 114, 108, 45, 93>>
      [] e.Type = CtrlCaret -> <<99, 116, 114, 108, 45, 94>>
      [] e.Type = CtrlSlash -> <<99, 116, 114, 108, 45, 47>>
      [] OTHER -> ToKebabCase(String(e.Type))

\* e.KeyName()
KeyName(e) ==
    IF e.Type >= Invalid THEN << >>
    ELSE CASE e.Type = Rune -> <<e.Char>>
           [] e.Type = Alt -> <<97, 108, 116, 45>> \o <<e.Char>>
           [] e.Type = CtrlAlt -> <<99, 116, 114, 108, 45, 97, 108, 116, 45>> \o <<e.Char>>
           [] e.Type = CtrlBackSlash -> <<99, 116, 114, 108, 45, 92>>
           [] e.Type = CtrlRightBracket -> <<99, 116, 114, 108, 45, 93>>
           [] e.Type = CtrlCaret -> <<99, 116, 114, 108, 45, 94>>
           [] e.Type = CtrlSlash -> <<99, 116, 114, 108, 45, 47>>
           [] OTHER -> ToKebabCase(String(e.Type))

\* the events KeyName is asked about: any kind, a few characters, no payload
KeyChars == {0, 97, 47}
KeyEvents == {Event(t, c, Nil) : t \in AllEventTypes, c \in KeyChars}

NoKeyName == [done |-> FALSE, e |-> Event(Rune, 0, Nil), name |-> << >>]

KeyInit ==
    /\ ke = Event(Rune, 0, Nil)
    /\ kres = NoKeyName

\* the caller holds an event
NewKey ==
    /\ ~kres.done
    /\ ke = Event(Rune, 0, Nil)
    /\ \E e \in KeyEvents : ke' = e
    /\ UNCHANGED kres
    /\ UNCHANGED <<themeVars, pairVars, eventVars, mouseVars, hexVars, borderVars>>

\* name := ke.KeyName()
CallKeyName ==
    /\ ~kres.done
    /\ kres' = [done |-> TRUE, e |-> ke, name |-> KeyName(ke)]
    /\ UNCHANGED ke
    /\ UNCHANGED <<themeVars, pairVars, eventVars, mouseVars, hexVars, borderVars>>

(***************************************************************************)
(* ColorPair.HasBg.                                                        *)
(***************************************************************************)
\* HasBg that tests the background colour whatever the attribute
HasBgIgnoresReverse(p) == p.bg # colDefault

\* p.HasBg()
HasBg(p) ==
    \/ ~HasBit(p.attr, Reverse) /\ p.bg # colDefault
    \/ HasBit(p.attr, Reverse) /\ p.fg # colDefault

HasBgAttrs == {AttrUndefined, AttrRegular, Bold, Underline, Reverse,
               BitOr(Reverse, Bold, AttrBits), BitOr(Reverse, Underline, AttrBits)}
HasBgPairs == {ColorPair(f, b, a) : f \in PairColors, b \in PairColors,
                                    a \in HasBgAttrs}

NoHasBg == [done |-> FALSE, p |-> ColorPair(0, 0, 0), r |-> FALSE]

HasBgInit == pbg = NoHasBg

\* r := p.HasBg(), for a pair p
CallHasBg ==
    /\ ~pbg.done
    /\ \E p \in HasBgPairs : pbg' = [done |-> TRUE, p |-> p, r |-> HasBg(p)]
    /\ UNCHANGED <<pa, pb, pres>>
    /\ UNCHANGED <<themeVars, eventVars, mouseVars, keyVars, hexVars, borderVars>>

(***************************************************************************)
(* BorderShape and its edge predicates.                                    *)
(***************************************************************************)
BorderUndefined == 0
BorderNone == 1
BorderRounded == 2
BorderSharp == 3
BorderBold == 4
BorderBlock == 5
BorderThinBlock == 6
BorderDouble == 7
BorderHorizontal == 8
BorderVertical == 9
BorderTop == 10
BorderBottom == 11
BorderLeft == 12
BorderRight == 13

BorderShapes == BorderUndefined..BorderRight

\* HasLeft that draws the left edge of a horizontal border
HasLeftOfHorizontal(s) ==
    s \notin {BorderNone, BorderRight, BorderTop, BorderBottom}

\* s.HasLeft()
HasLeft(s) ==
    s \notin {BorderNone, BorderRight, BorderTop, BorderBottom, BorderHorizontal}

\* s.HasRight()
HasRight(s) ==
    s \notin {BorderNone, BorderLeft, BorderTop, BorderBottom, BorderHorizontal}

\* s.HasTop()
HasTop(s) ==
    s \notin {BorderNone, BorderLeft, BorderRight, BorderBottom, BorderVertical}

NoEdges == [called |-> {}, HasLeft |-> FALSE, HasRight |-> FALSE, HasTop |-> FALSE]

BorderInit ==
    /\ shape = BorderUndefined
    /\ bres = NoEdges

\* the caller holds a border shape
NewShape ==
    /\ bres.called = {}
    /\ shape = BorderUndefined
    /\ \E s \in BorderShapes : shape' = s
    /\ UNCHANGED bres
    /\ UNCHANGED <<themeVars, pairVars, eventVars, mouseVars, keyVars, hexVars>>

CallHasLeft ==
    /\ "HasLeft" \notin bres.called
    /\ bres' = [bres EXCEPT !.called = @ \cup {"HasLeft"}, !.HasLeft = HasLeft(shape)]
    /\ UNCHANGED shape
    /\ UNCHANGED <<themeVars, pairVars, eventVars, mouseVars, keyVars, hexVars>>

CallHasRight ==
    /\ "HasRight" \notin bres.called
    /\ bres' = [bres EXCEPT !.called = @ \cup {"HasRight"}, !.HasRight = HasRight(shape)]
    /\ UNCHANGED shape
    /\ UNCHANGED <<themeVars, pairVars, eventVars, mouseVars, keyVars, hexVars>>

CallHasTop ==
    /\ "HasTop" \notin bres.called
    /\ bres' = [bres EXCEPT !.called = @ \cup {"HasTop"}, !.HasTop = HasTop(shape)]
    /\ UNCHANGED shape
    /\ UNCHANGED <<themeVars, pairVars, eventVars, mouseVars, keyVars, hexVars>>

(***************************************************************************)
(* HexToColor, is24 and IsDefault.  Color is an int32.                     *)
(***************************************************************************)
\* the largest int32
MaxInt32 == 2147483647

\* the conversion of a Go int to Color (int32): the low 32 bits, signed
ToColor(x) ==
    IF x >= -MaxInt32 - 1 /\ x <= MaxInt32 THEN x
    ELSE ((x + MaxInt32 + 1) % (2 * (MaxInt32 + 1))) - MaxInt32 - 1

\* the value of a digit of strconv.ParseInt, -1 for a byte that is none
DigitOf(c) ==
    IF c >= 48 /\ c <= 57 THEN c - 48
    ELSE IF IsLower(ToLower(c)) THEN ToLower(c) - 97 + 10
    ELSE -1

RECURSIVE ParseUint16(_, _, _)
\* strconv.ParseUint(s, 16, 64) from the i-th byte on, n being the value of
\* the bytes before it: a byte that is no digit below 16 is a syntax error
ParseUint16(s, i, n) ==
    IF i > Len(s) THEN [n |-> n, err |-> FALSE]
    ELSE IF DigitOf(s[i]) < 0 \/ DigitOf(s[i]) >= 16 THEN [n |-> 0, err |-> TRUE]
    ELSE ParseUint16(s, i + 1, n * 16 + DigitOf(s[i]))

\* strconv.ParseInt(s, 16, 0): an optional sign, then ParseUint; on a syntax
\* error the value is 0
ParseInt(s) ==
    IF s = << >> THEN [n |-> 0, err |-> TRUE]
    ELSE LET neg == s[1] = 45
             rest == IF s[1] = 43 \/ s[1] = 45 THEN Tail(s) ELSE s
             un == IF rest = << >> THEN [n |-> 0, err |-> TRUE]
                   ELSE ParseUint16(rest, 1, 0)
         IN  IF un.err THEN un
             ELSE [n |-> IF neg THEN -un.n ELSE un.n, err |-> FALSE]

\* HexToColor with the green component left unshifted
HexToColorGreenUnshifted(rrggbb) ==
    LET r == ParseInt(SubSeq(rrggbb, 2, 3)).n
        g == ParseInt(SubSeq(rrggbb, 4, 5)).n
        b == ParseInt(SubSeq(rrggbb, 6, 7)).n
    IN  ToColor(2^24 + r * 2^16 + g + b)

\* HexToColor(rrggbb): the errors of ParseInt are dropped
HexToColor(rrggbb) ==
    LET r == ParseInt(SubSeq(rrggbb, 2, 3)).n
        g == ParseInt(SubSeq(rrggbb, 4, 5)).n
        b == ParseInt(SubSeq(rrggbb, 6, 7)).n
    IN  ToColor(2^24 + r * 2^16 + g * 2^8 + b)

\* c.IsDefault()
IsDefault(c) == c = colDefault

\* is24 without the test of the sign
is24AnySign(c) == (c \div 2^24) % 2 = 1

\* c.is24(): c > 0 && c&(1<<24) > 0
is24(c) == c > 0 /\ (c \div 2^24) % 2 = 1

\* the bytes a colour string is made of after its '#': 0 f A g - +
HexChars == {48, 102, 65, 103, 45, 43}
HexStrings ==
    {<<35, c1, c2, c3, c4, c5, c6>> :
        c1 \in HexChars, c2 \in HexChars, c3 \in HexChars,
        c4 \in HexChars, c5 \in HexChars, c6 \in HexChars}

PaletteIndices == 0..255

NoColor == [done |-> FALSE, in |-> << >>, r |-> 0]
NoClass == [done |-> FALSE, c |-> 0, from |-> "none", is24 |-> FALSE,
            IsDefault |-> FALSE]

HexInit ==
    /\ hex = << >>
    /\ hres = NoColor
    /\ cres = NoClass

\* the caller holds a 7-byte colour string
NewHex ==
    /\ hex = << >>
    /\ ~cres.done
    /\ \E h \in HexStrings : hex' = h
    /\ UNCHANGED <<hres, cres>>
    /\ UNCHANGED <<themeVars, pairVars, eventVars, mouseVars, keyVars, borderVars>>

\* r := HexToColor(hex)
CallHexToColor ==
    /\ hex # << >>
    /\ ~hres.done
    /\ hres' = [done |-> TRUE, in |-> hex, r |-> HexToColor(hex)]
    /\ UNCHANGED <<hex, cres>>
    /\ UNCHANGED <<themeVars, pairVars, eventVars, mouseVars, keyVars, borderVars>>

\* r.is24() and r.IsDefault() of the colour HexToColor returned
ClassifyHexColor ==
    /\ hres.done
    /\ ~cres.done
    /\ cres' = [done |-> TRUE, c |-> hres.r, from |-> "hex",
                is24 |-> is24(hres.r), IsDefault |-> IsDefault(hres.r)]
    /\ UNCHANGED <<hex, hres>>
    /\ UNCHANGED <<themeVars, pairVars, eventVars, mouseVars, keyVars, borderVars>>

\* c.is24() and c.IsDefault() of a sentinel or a palette index
ClassifyColor ==
    /\ hex = << >>
    /\ ~cres.done
    /\ \E c \in {colUndefined, colDefault} \cup PaletteIndices :
          cres' = [done |-> TRUE, c |-> c,
                   from |-> IF c \in PaletteIndices THEN "index" ELSE "sentinel",
                   is24 |-> is24(c), IsDefault |-> IsDefault(c)]
    /\ UNCHANGED <<hex, hres>>
    /\ UNCHANGED <<themeVars, pairVars, eventVars, mouseVars, keyVars, borderVars>>

(***************************************************************************)
(* Specifications: one per component; the other components stand still.    *)
(***************************************************************************)
Init ==
    /\ ThemeInit /\ PairInit /\ HasBgInit /\ EventInit /\ MouseInit
    /\ KeyInit /\ BorderInit /\ HexInit

Next == SetSlot \/ InitTheme

Spec == Init /\ [][Next]_vars

NextAnyBase == SetSlot \/ InitThemeAnyBase

SpecAnyBase == Init /\ [][NextAnyBase]_vars

NextReload == Reload \/ ReloadSame

SpecReload == Init /\ [][NextReload]_vars

NextAlias == Reload \/ InitThemeAliased

SpecAlias == Init /\ [][NextAlias]_vars

NextPair == NewPairs \/ CallMerge \/ CallMergeNonDefault

SpecPair == Init /\ [][NextPair]_vars

NextHasBg == CallHasBg

SpecHasBg == Init /\ [][NextHasBg]_vars

NextEvent == NewEvents \/ CallComparable

SpecEvent == Init /\ [][NextEvent]_vars

NextMouse == MouseDown

SpecMouse == Init /\ [][NextMouse]_vars

NextKey == NewKey \/ CallKeyName

SpecKey == Init /\ [][NextKey]_vars

NextBorder == NewShape \/ CallHasLeft \/ CallHasRight \/ CallHasTop

SpecBorder == Init /\ [][NextBorder]_vars

NextHex == NewHex \/ CallHexToColor \/ ClassifyHexColor \/ ClassifyColor

SpecHex == Init /\ [][NextHex]_vars

(***************************************************************************)
(* Properties of theme resolution and palette derivation (Spec).           *)
(***************************************************************************)
Fields == {"Color", "Attr", "BackgroundColor"}

\* the "not set" value of a field of a ColorAttr
UndefinedOf(f) == IF f = "Attr" THEN AttrUndefined ELSE colUndefined

\* whether a background colour is a real one, neither default nor undefined
IsReal(c) == c # colDefault /\ c # colUndefined

\* C1: after initTheme(overlay, base, forceBlack = false) every field of every
\* primitive slot is the overlay's field where the overlay defined it and the
\* base theme's field where it did not; an overlay Color of default and an
\* overlay Attr of regular are defined values and override the base.
C1_PrimitiveSlotsResolve ==
    (lastCall.done /\ ~lastCall.forceBlack) =>
        \A s \in PrimitiveSlots :
            /\ \A f \in Fields :
                  theme[s][f] = IF lastCall.theme[s][f] # UndefinedOf(f)
                                THEN lastCall.theme[s][f]
                                ELSE builtin[lastCall.base][s][f]
            /\ lastCall.theme[s].Color = colDefault => theme[s].Color = colDefault
            /\ lastCall.theme[s].Attr = AttrRegular => theme[s].Attr = AttrRegular

\* C1 witness: an overlay slot with a default colour and nothing else has
\* overridden a base colour that was not default, and kept the base's rest.
C1_Witness ==
    /\ lastCall.done /\ ~lastCall.forceBlack
    /\ \E s \in PrimitiveSlots :
          /\ lastCall.theme[s] = ColorAttr(colDefault, AttrUndefined, colUndefined)
          /\ builtin[lastCall.base][s].Color \notin {colDefault, colUndefined}
          /\ theme[s].Color = colDefault
          /\ theme[s].Attr = builtin[lastCall.base][s].Attr

\* C3: after initTheme with forceBlack = true the resolved Bg colour is black,
\* whatever the overlay's Bg slot held.
C3_ForceBlackBg ==
    (lastCall.done /\ lastCall.forceBlack) => theme.Bg.Color = colBlack

\* C3 witness: the overlay had set Bg to a colour other than black.
C3_Witness ==
    /\ lastCall.done /\ lastCall.forceBlack
    /\ lastCall.theme.Bg.Color \notin {colUndefined, colBlack}
    /\ lastCall.theme.Bg.BackgroundColor # colUndefined
    /\ theme.Bg.Color = colBlack

\* C4: a compound slot the overlay leaves wholly undefined resolves to the
\* resolved value of its fallback slot, and so PreviewScrollbar, through
\* PreviewBorder, to the resolved Border.
C4_CompoundTracksResolvedFallback ==
    lastCall.done =>
        /\ \A s \in CompoundSlots :
              lastCall.theme[s] = NewColorAttr => theme[s] = theme[FallbackOf(s)]
        /\ (\A s \in {"SelectedFg", "PreviewFg"} : lastCall.theme[s] = NewColorAttr)
              => theme.SelectedFg = theme.Fg /\ theme.PreviewFg = theme.Fg
        /\ (\A s \in {"PreviewBorder", "Separator", "Scrollbar", "PreviewScrollbar"} :
                lastCall.theme[s] = NewColorAttr)
              => /\ theme.PreviewBorder = theme.Border
                 /\ theme.Separator = theme.Border
                 /\ theme.Scrollbar = theme.Border
                 /\ theme.PreviewScrollbar = theme.Border

\* C4 witness: only Border was overlaid, with a colour the base theme does not
\* have there, and PreviewScrollbar shows that colour.
C4_Witness ==
    /\ lastCall.done
    /\ lastCall.theme.Border.Color = colMagenta
    /\ builtin[lastCall.base].Border.Color # colMagenta
    /\ \A s \in CompoundSlots : lastCall.theme[s] = NewColorAttr
    /\ theme.PreviewScrollbar.Color = colMagenta

\* C5: after initTheme against a built-in theme no exported pair has an
\* undefined fg or bg.
C5_PaletteColorsDefined ==
    lastCall.done =>
        \A n \in PaletteNames :
            palette[n].fg # colUndefined /\ palette[n].bg # colUndefined

\* C5 witness: the overlay had every slot undefined.
C5_Witness ==
    /\ lastCall.done
    /\ lastCall.theme = EmptyTheme
    /\ \A n \in PaletteNames : palette[n].fg # colUndefined

\* C6 as claimed: no exported pair has attr AttrUndefined.
C6_Original_NoAttrUndefined ==
    lastCall.done => \A n \in PaletteNames : palette[n].attr # AttrUndefined

\* C6 as amended: after initTheme against a built-in theme an exported pair has
\* attr AttrUndefined exactly when it is not one of the blank pairs and the
\* overlay leaves Attr undefined in the pair's foreground slot and in every
\* slot that one falls back on.
C6_AttrUndefinedIffUnset ==
    lastCall.done =>
        LET ps == PairingSlots(theme)
        IN  \A n \in PaletteNames :
                (palette[n].attr = AttrUndefined) <=>
                    /\ ps[n][1] # "blank"
                    /\ \A s \in FallbackChain(ps[n][1]) :
                          lastCall.theme[s].Attr = AttrUndefined

\* C6 witness: a pair with an undefined attr beside a pair with a set one and
\* a blank pair with the regular one.
C6_Witness ==
    /\ lastCall.done
    /\ palette.ColPrompt.attr = AttrUndefined
    /\ palette.ColPreviewScrollbar.attr = Reverse
    /\ palette.ColCursorEmpty.attr = AttrRegular

\* C7 as claimed: a foreground that is default and reverse gives the pair a
\* default bg.
C7_Original_ReverseDefaultBg ==
    lastCall.done =>
        LET p == Pairings(theme)
        IN  \A n \in PaletteNames :
                (p[n][1].Color = colDefault /\ HasBit(p[n][1].Attr, Reverse))
                    => palette[n].bg = colDefault

\* C7 as amended: a foreground that is default and reverse, and whose
\* BackgroundColor is default or undefined, gives the pair a default bg;
\* with a real BackgroundColor the pair's bg is that colour.
C7_ReverseDefaultBgUnlessOverridden ==
    lastCall.done =>
        LET p == Pairings(theme)
        IN  \A n \in PaletteNames :
                (p[n][1].Color = colDefault /\ HasBit(p[n][1].Attr, Reverse))
                    => palette[n].bg = IF IsReal(p[n][1].BackgroundColor)
                                       THEN p[n][1].BackgroundColor
                                       ELSE colDefault

\* C7 witness: a default, reverse foreground paired against a background slot
\* that is not default.
C7_Witness ==
    /\ lastCall.done
    /\ LET p == Pairings(theme)
       IN  \E n \in PaletteNames :
              /\ p[n][1].Color = colDefault /\ HasBit(p[n][1].Attr, Reverse)
              /\ ~IsReal(p[n][1].BackgroundColor)
              /\ p[n][2].Color # colDefault
              /\ palette[n].bg = colDefault

\* C8: in every pairing the pair's fg and attr are the foreground's Color and
\* Attr; its bg is the foreground's BackgroundColor when that is a real colour,
\* and otherwise the background slot's colour (default under the reverse rule),
\* never the foreground's BackgroundColor.
C8_BackgroundColorOverride ==
    lastCall.done =>
        LET p == Pairings(theme)
        IN  \A n \in PaletteNames :
                /\ palette[n].fg = p[n][1].Color
                /\ palette[n].attr = p[n][1].Attr
                /\ IsReal(p[n][1].BackgroundColor)
                      => palette[n].bg = p[n][1].BackgroundColor
                /\ ~IsReal(p[n][1].BackgroundColor) =>
                      palette[n].bg = IF /\ p[n][1].Color = colDefault
                                         /\ HasBit(p[n][1].Attr, Reverse)
                                      THEN colDefault ELSE p[n][2].Color

\* C8 witness: a real BackgroundColor has replaced a different colour of the
\* background slot.
C8_Witness ==
    /\ lastCall.done
    /\ LET p == Pairings(theme)
       IN  \E n \in PaletteNames :
              /\ IsReal(p[n][1].BackgroundColor)
              /\ IsReal(p[n][2].Color)
              /\ p[n][2].Color # p[n][1].BackgroundColor
              /\ palette[n].bg = p[n][1].BackgroundColor

\* the slots whose resolution reads the Bg slot
BgSlots == {"Bg", "SelectedBg", "PreviewBg"}

\* the theme the last call would have left with the other forceBlack
OtherForceBlack ==
    initTheme(lastCall.theme, builtin[lastCall.base], ~lastCall.forceBlack)

\* C16 as claimed: every resolved slot other than Bg, and every pair not
\* paired against Bg, is the same with forceBlack = true as with false.
C16_Original_ForceBlackBgOnly ==
    lastCall.done =>
        LET other == OtherForceBlack
            otherPalette == initPalette(other)
            ps == PairingSlots(theme)
        IN  /\ \A s \in Slots \ {"Bg"} : theme[s] = other[s]
            /\ \A n \in PaletteNames :
                  ps[n][2] # "Bg" => palette[n] = otherPalette[n]

\* C16 as amended: with forceBlack = true as with false, every resolved slot
\* other than Bg, SelectedBg and PreviewBg is the same, SelectedBg and
\* PreviewBg are the same in each field the overlay defines for them and are
\* the resolved Bg's in each field it does not, and every pair paired against
\* none of Bg, SelectedBg and PreviewBg in either call is the same.
C16_ForceBlackBgAndDependents ==
    lastCall.done =>
        LET other == OtherForceBlack
            otherPalette == initPalette(other)
            ps == PairingSlots(theme)
            po == PairingSlots(other)
        IN  /\ \A s \in Slots \ BgSlots : theme[s] = other[s]
            /\ \A s \in {"SelectedBg", "PreviewBg"}, f \in Fields :
                  IF lastCall.theme[s][f] # UndefinedOf(f)
                  THEN theme[s][f] = other[s][f]
                  ELSE theme[s][f] = theme.Bg[f] /\ other[s][f] = other.Bg[f]
            /\ \A n \in PaletteNames :
                  (ps[n][2] \notin BgSlots /\ po[n][2] \notin BgSlots)
                      => palette[n] = otherPalette[n]

\* C16 witness: forceBlack has made SelectedBg and the bg of ColSelected
\* black, which they are not without it, and left ColCurrent as it is.
C16_Witness ==
    /\ lastCall.done /\ lastCall.forceBlack
    /\ theme.SelectedBg.Color = colBlack
    /\ OtherForceBlack.SelectedBg.Color # colBlack
    /\ palette.ColSelected.bg = colBlack
    /\ palette.ColCurrent = initPalette(OtherForceBlack).ColCurrent

\* C18: the blank pairs ColCursorEmpty, ColCurrentCursorEmpty and
\* ColCurrentSelectedEmpty have the resolved Fg's colour as fg and the regular
\* attribute, whatever attribute Fg carries; the theme's Fg keeps its own.
C18_BlankPairsRegular ==
    lastCall.done =>
        /\ \A n \in {"ColCursorEmpty", "ColCurrentCursorEmpty",
                     "ColCurrentSelectedEmpty"} :
              /\ palette[n].fg = theme.Fg.Color
              /\ palette[n].attr = AttrRegular
        /\ theme.Fg.Attr = IF lastCall.theme.Fg.Attr # AttrUndefined
                           THEN lastCall.theme.Fg.Attr
                           ELSE builtin[lastCall.base].Fg.Attr

\* C18 witness: Fg is reverse and magenta, the blank pairs magenta and regular.
C18_Witness ==
    /\ lastCall.done
    /\ theme.Fg.Attr = Reverse /\ theme.Fg.Color = colMagenta
    /\ palette.ColCursorEmpty.fg = colMagenta
    /\ palette.ColCursorEmpty.attr = AttrRegular
    /\ palette.ColCurrentSelectedEmpty.attr = AttrRegular

(***************************************************************************)
(* Properties of theme resolution against any base theme (SpecAnyBase).    *)
(***************************************************************************)
\* C17: against every base theme each compound slot resolves to
\* merge(resolved fallback slot, merge(baseTheme.slot, overlay.slot)): a
\* value the base theme has for the compound slot itself is folded in.
C17_CompoundFoldsBaseSlot ==
    lastCall.done =>
        \A s \in CompoundSlots :
            theme[s] = o(theme[FallbackOf(s)],
                         o(BaseTheme(lastCall.base)[s], lastCall.theme[s]))

C21_BaseThemesUnmodified ==
    /\ \A b \in BaseNames : \A s \in Slots : builtin[b][s] = init[b][s]
    /\ \A b \in BaseNames : builtin[b].Colored = init[b].Colored
    /\ reloads # << >> => theme.Colored = reloads[Len(reloads)].theme.Colored

(***************************************************************************)
(* Properties of the ColorPair merges (SpecPair).                          *)
(***************************************************************************)
\* C2: MergeNonDefault(a, b) keeps a's fg (bg) when b's is default and takes
\* b's for every other value, undefined included; Merge(a, b) keeps a's fg
\* (bg) when b's is undefined and takes b's otherwise; neither changes a or b.
C2_MergeSentinels ==
    /\ pres.op = "MergeNonDefault" =>
          /\ pres.r.fg = IF pres.b.fg = colDefault THEN pres.a.fg ELSE pres.b.fg
          /\ pres.r.bg = IF pres.b.bg = colDefault THEN pres.a.bg ELSE pres.b.bg
    /\ pres.op = "Merge" =>
          /\ pres.r.fg = IF pres.b.fg = colUndefined THEN pres.a.fg ELSE pres.b.fg
          /\ pres.r.bg = IF pres.b.bg = colUndefined THEN pres.a.bg ELSE pres.b.bg
    /\ pres.op # "none" => pa = pres.a /\ pb = pres.b

\* C2 witness: MergeNonDefault has taken an undefined fg and kept a's bg
\* against a default one.
C2_Witness ==
    /\ pres.op = "MergeNonDefault"
    /\ pres.b.fg = colUndefined /\ pres.a.fg = colMagenta
    /\ pres.r.fg = colUndefined
    /\ pres.b.bg = colDefault /\ pres.a.bg = colBlack
    /\ pres.r.bg = colBlack

(***************************************************************************)
(* Properties of the mouse classifier (SpecMouse).                         *)
(***************************************************************************)
\* C9: the first mouse-down after construction is never a double click; a
\* mouse-down on the cell of the mouse-down before it, itself not a double
\* click, is a double click when at most 500 ms lie between them (499) and is
\* none when more do (501).
C9_DoubleClickWindow ==
    \A i \in 1..Len(downs) :
        /\ i = 1 => ~downs[i].Double
        /\ (i > 1 /\ downs[i].pos = downs[i - 1].pos /\ ~downs[i - 1].Double) =>
              /\ downs[i].Double <=> (downs[i].t - downs[i - 1].t <= 500)
              /\ downs[i].t - downs[i - 1].t = 499 => downs[i].Double
              /\ downs[i].t - downs[i - 1].t = 501 => ~downs[i].Double

\* C9 witness: a double click 499 ms after a first mouse-down, then a
\* mouse-down on the same cell 501 ms after a fresh one, not a double click.
C9_Witness ==
    /\ Len(downs) = 3
    /\ downs[1].pos = downs[2].pos /\ downs[2].pos = downs[3].pos
    /\ downs[2].t - downs[1].t = 501 /\ ~downs[2].Double
    /\ downs[3].t - downs[2].t = 499 /\ downs[3].Double

(***************************************************************************)
(* Properties of Event.Comparable (SpecEvent).                             *)
(***************************************************************************)
\* C10: Comparable keeps Type and Char and yields a nil mouse payload, so two
\* events of the same Type and Char have equal Comparable values whatever
\* their mouse payloads; it is idempotent and leaves the receiver as it was.
C10_ComparableIgnoresMouse ==
    eres.done =>
        /\ (eres.a.Type = eres.b.Type /\ eres.a.Char = eres.b.Char)
              => eres.ra = eres.rb
        /\ eres.ra.Type = eres.a.Type /\ eres.ra.Char = eres.a.Char
        /\ eres.ra.MouseEvent = Nil /\ eres.rb.MouseEvent = Nil
        /\ eres.rra = eres.ra
        /\ e1 = eres.a /\ e2 = eres.b

\* C10 witness: two events of one Type and Char with distinct mouse payloads,
\* themselves unequal, with equal Comparable values.
C10_Witness ==
    /\ eres.done
    /\ eres.a.Type = eres.b.Type /\ eres.a.Char = eres.b.Char
    /\ eres.a.MouseEvent = "mouseA" /\ eres.b.MouseEvent = "mouseB"
    /\ eres.a # eres.b
    /\ eres.ra = eres.rb
    /\ e1.MouseEvent = "mouseA"

(***************************************************************************)
(* Properties of Event.KeyName (SpecKey).                                  *)
(***************************************************************************)
\* the kinds KeyName names by a fixed rule of its own
SpecialKinds == {Rune, Alt, CtrlAlt, CtrlBackSlash, CtrlRightBracket, CtrlCaret,
                 CtrlSlash}

\* what the claim says of the kinds it lists: the character for Rune, "alt-"
\* and "ctrl-alt-" before it for Alt and CtrlAlt, and the four fixed names
KeyNameOfSpecialKinds ==
    /\ kres.e.Type = Rune => kres.name = <<kres.e.Char>>
    /\ kres.e.Type = Alt => kres.name = <<97, 108, 116, 45>> \o <<kres.e.Char>>
    /\ kres.e.Type = CtrlAlt => kres.name = <<99, 116, 114, 108, 45, 97, 108, 116, 45>> \o <<kres.e.Char>>
    /\ kres.e.Type = CtrlBackSlash => kres.name = <<99, 116, 114, 108, 45, 92>>
    /\ kres.e.Type = CtrlRightBracket => kres.name = <<99, 116, 114, 108, 45, 93>>
    /\ kres.e.Type = CtrlCaret => kres.name = <<99, 116, 114, 108, 45, 94>>
    /\ kres.e.Type = CtrlSlash => kres.name = <<99, 116, 114, 108, 45, 47>>

\* C11 as claimed: KeyName gives the listed kinds their fixed names and every
\* other kind of the enumeration the kebab-case form of its symbolic name.
C11_Original_KebabForEveryOtherKind ==
    kres.done =>
        /\ KeyNameOfSpecialKinds
        /\ kres.e.Type \notin SpecialKinds
              => kres.name = ToKebabCase(String(kres.e.Type))

\* C11 as amended: KeyName gives the listed kinds their fixed names, every
\* other kind below Invalid the kebab-case form of its symbolic name (ctrl-a,
\* page-up, f10), and Invalid and every kind after it the empty string.
C11_KebabBelowInvalid ==
    kres.done =>
        /\ KeyNameOfSpecialKinds
        /\ (kres.e.Type \notin SpecialKinds /\ kres.e.Type < Invalid)
              => /\ kres.name = ToKebabCase(String(kres.e.Type))
                 /\ kres.name # << >>
        /\ kres.e.Type = CtrlA => kres.name = <<99, 116, 114, 108, 45, 97>>
        /\ kres.e.Type = PageUp => kres.name = <<112, 97, 103, 101, 45, 117, 112>>
        /\ kres.e.Type = F10 => kres.name = <<102, 49, 48>>
        /\ kres.e.Type >= Invalid => kres.name = << >>

\* C11 witness: KeyName has named a kind by the kebab-case form of its
\* symbolic name, PageUp as page-up.
C11_Witness ==
    /\ kres.done
    /\ kres.e.Type = PageUp
    /\ kres.name = <<112, 97, 103, 101, 45, 117, 112>>

(***************************************************************************)
(* Properties of HexToColor, is24 and IsDefault (SpecHex).                 *)
(***************************************************************************)
\* 0-9, A-F, a-f
IsHexDigit(c) == c \in (48..57) \cup (65..70) \cup (97..102)

HexValue(c) == IF c <= 57 THEN c - 48 ELSE IF c <= 70 THEN c - 55 ELSE c - 87

\* the component of h at bytes i, i+1 is two hex digits; its value
WellFormedComponent(h, i) == IsHexDigit(h[i]) /\ IsHexDigit(h[i + 1])
ComponentValue(h, i) == 16 * HexValue(h[i]) + HexValue(h[i + 1])

WellFormed(h) == \A i \in {2, 4, 6} : WellFormedComponent(h, i)

\* C12: for a well-formed "#RRGGBB" HexToColor returns 2^24 + R*2^16 + G*2^8 + B
\* with R, G, B in 0..255; "#000000" gives 2^24 and "#ffffff" 2^24 + 0xffffff;
\* the result fits an int32; and R, G and B can be read back from the result,
\* so distinct RRGGBB values give distinct Colors.
C12_HexToColorPacksRGB ==
    (hres.done /\ WellFormed(hres.in)) =>
        LET R == ComponentValue(hres.in, 2)
            G == ComponentValue(hres.in, 4)
            B == ComponentValue(hres.in, 6)
        IN  /\ R \in 0..255 /\ G \in 0..255 /\ B \in 0..255
            /\ hres.r = 2^24 + R * 2^16 + G * 2^8 + B
            /\ hres.r >= 2^24 /\ hres.r < 2^25 /\ hres.r <= MaxInt32
            /\ (hres.r - 2^24) \div 2^16 = R
            /\ (hres.r \div 2^8) % 2^8 = G
            /\ hres.r % 2^8 = B
            /\ hres.in = <<35, 48, 48, 48, 48, 48, 48>> => hres.r = 16777216
            /\ hres.in = <<35, 102, 102, 102, 102, 102, 102>> => hres.r = 33554431

\* C12 witness: "#fA0f0A" has been converted, digits of both cases.
C12_Witness ==
    /\ hres.done
    /\ hres.in = <<35, 102, 65, 48, 102, 48, 65>>
    /\ hres.r = 2^24 + 250 * 2^16 + 15 * 2^8 + 10

\* C15: for a 7-byte input with a component that is not two hex digits, that
\* component contributes zero: the result is 2^24 plus the contributions of
\* the well-formed components only.
C15_MalformedComponentIsZero ==
    (hres.done /\ ~WellFormed(hres.in)) =>
        LET Contribution(i) == IF WellFormedComponent(hres.in, i)
                               THEN ComponentValue(hres.in, i) ELSE 0
        IN  hres.r = 2^24 + Contribution(2) * 2^16 + Contribution(4) * 2^8
                          + Contribution(6)

\* C19: the sentinels differ from each other, from every palette index and
\* from every HexToColor result of a well-formed input; is24 is true of each
\* such result and false of the sentinels and the palette indices; IsDefault
\* is true of the default sentinel only.
C19_SentinelsApartFromColors ==
    /\ colUndefined # colDefault
    /\ cres.done =>
          /\ cres.IsDefault <=> cres.c = colDefault
          /\ cres.from = "sentinel" =>
                ~cres.is24 /\ cres.c \notin PaletteIndices
          /\ cres.from = "index" =>
                ~cres.is24 /\ cres.c \notin {colUndefined, colDefault}
          /\ (cres.from = "hex" /\ WellFormed(hres.in)) =>
                /\ cres.is24
                /\ cres.c \notin {colUndefined, colDefault}
                /\ cres.c \notin PaletteIndices

\* C19 witness: is24 has been asked of the result of a well-formed input.
C19_Witness ==
    /\ cres.done
    /\ cres.from = "hex"
    /\ WellFormed(hres.in)
    /\ cres.is24 /\ ~cres.IsDefault

(***************************************************************************)
(* Properties of the BorderShape predicates (SpecBorder).                  *)
(***************************************************************************)
\* C13: HasLeft is false exactly for None, Right, Top, Bottom, Horizontal,
\* HasRight exactly for None, Left, Top, Bottom, Horizontal, HasTop exactly
\* for None, Left, Right, Bottom, Vertical; each is true for every other
\* shape, BorderUndefined included.
C13_EdgeTruthTable ==
    LET frames == {BorderUndefined, BorderRounded, BorderSharp, BorderBold,
                   BorderBlock, BorderThinBlock, BorderDouble}
    IN  /\ "HasLeft" \in bres.called =>
              /\ ~bres.HasLeft <=> shape \in {BorderNone, BorderRight, BorderTop,
                                              BorderBottom, BorderHorizontal}
              /\ bres.HasLeft <=> shape \in frames \cup {BorderVertical, BorderLeft}
        /\ "HasRight" \in bres.called =>
              /\ ~bres.HasRight <=> shape \in {BorderNone, BorderLeft, BorderTop,
                                               BorderBottom, BorderHorizontal}
              /\ bres.HasRight <=> shape \in frames \cup {BorderVertical, BorderRight}
        /\ "HasTop" \in bres.called =>
              /\ ~bres.HasTop <=> shape \in {BorderNone, BorderLeft, BorderRight,
                                             BorderBottom, BorderVertical}
              /\ bres.HasTop <=> shape \in frames \cup {BorderHorizontal, BorderTop}

\* C13 witness: a horizontal border has a top edge and neither side edge.
C13_Witness ==
    /\ bres.called = {"HasLeft", "HasRight", "HasTop"}
    /\ shape = BorderHorizontal
    /\ ~bres.HasLeft /\ ~bres.HasRight /\ bres.HasTop

(***************************************************************************)
(* Properties of ColorPair.HasBg (SpecHasBg).                              *)
(***************************************************************************)
\* C14: HasBg(p) is true exactly when the Reverse bit of p.attr is clear and
\* p.bg is not default, or the bit is set and p.fg is not default; no other
\* bit of p.attr matters.
C14_HasBgFollowsReverse ==
    pbg.done =>
        (pbg.r <=> IF HasBit(pbg.p.attr, Reverse)
                   THEN pbg.p.fg # colDefault
                   ELSE pbg.p.bg # colDefault)

\* C14 witness: a bold reverse pair with a default fg has no background,
\* though its bg is a colour.
C14_Witness ==
    /\ pbg.done
    /\ HasBit(pbg.p.attr, Reverse) /\ HasBit(pbg.p.attr, Bold)
    /\ pbg.p.fg = colDefault /\ pbg.p.bg = colMagenta
    /\ ~pbg.r

====
